---------------------------- MODULE Spec2Model ----------------------------
(***************************************************************************)
(* vscode-tmgrammar-test: the assertion matcher (src/src/unit/index.ts),   *)
(* the snapshot differ (src/unnamed/part_000, i.e. snapshot/index.ts) and  *)
(* the two command line runners (src/src/unit/index.ts 300-431 and         *)
(* src/src/snapshot.ts).                                                   *)
(*                                                                         *)
(* Four specifications share this module:                                  *)
(*   SpecScopes  missingScopes_ applied to a pair of scope lists           *)
(*   SpecUnit    runGrammarTestCase applied to one test case               *)
(*   SpecDiffer  renderSnapshotTestResult applied to (expected, actual)    *)
(*   SpecRunner  a whole run of either runner: the glob callback, the      *)
(*               promise callbacks of every file, the final reduction      *)
(***************************************************************************)
EXTENDS Integers, Sequences, FiniteSets, TLC

VARIABLES
  \* ---- SpecScopes
  required,     \* rs : string[]
  actualScopes, \* as : string[]
  missing,      \* the value returned by missingScopes_
  mpc,          \* "call" before the call, "done" after it
  \* ---- SpecUnit
  testCase,     \* GrammarTestCase: source lines and assertion groups
  grammar,      \* what registry.loadGrammar and grammar.tokenizeLine answer
  upc,          \* "loading" | "resolved" | "rejected": the promise returned
  failures,     \* TestFailure[] the promise resolves to
  tokenizeCalls, \* the tokenizeLine calls made, in order
  \* ---- SpecDiffer
  expected,     \* AnnotatedLine[] parsed from the snapshot
  actual,       \* AnnotatedLine[] from getVSCodeTokens
  options,      \* {printNotModified, expandDiff}
  dpc,          \* "lineCount" | "sources" | "tokens" | "done"
  wrongLines,   \* [TChanges[], src, i][] once computed
  console,      \* the console.log calls made, in order
  result,       \* the value returned
  \* ---- SpecRunner
  runner,       \* "unit" (unit/index.ts 300-431) | "snapshot" (snapshot.ts)
  program,      \* the command line options
  disk,         \* what the file system and the tokenizer hold for each file
  phase,        \* "glob" | "running" | "exited"
  files,        \* the files the glob callback maps over
  chain,        \* per file, where its promise chain stands
  value,        \* per file, the value its first promise resolved to
  fresult,      \* per file, the number its last promise resolved to
  raised,       \* per file, whether an error was raised while handling it
  stdout,       \* the console.log calls of the run, each tagged with its file
  rcalls,       \* the tokenizeLine calls of the run, in order
  snapFile,     \* per file, the content of its .snap file
  exitCode,     \* the exit status of the process
  exitVia       \* what ended the process

scopesVars == <<required, actualScopes, missing, mpc>>
unitVars == <<testCase, grammar, upc, failures, tokenizeCalls>>
differVars == <<expected, actual, options, dpc, wrongLines, console, result>>

runnerVars == <<runner, program, disk, phase, files, chain, value, fresult, raised,
                stdout, rcalls, snapFile, exitCode, exitVia>>

vars == <<scopesVars, unitVars, differVars, runnerVars>>

(***************************************************************************)
(* Bounds                                                                  *)
(***************************************************************************)
\* longest scope list of a token / of an assertion
MaxScopes == 2

\* most tokens on a line; a line is as many characters long
MaxTokens == 2

\* most source lines of a file
MaxLines == 2

\* most test files of a run
MaxFiles == 2

\* the length of a long source line (a minified file)
LongLine == 20000

\* the scope names that occur
ScopeNames == {"a", "b"}

(***************************************************************************)
(* Generic helpers                                                         *)
(***************************************************************************)
SeqUpTo(S, n) == UNION {[1..k -> S] : k \in 0..n}

Range(s) == {s[k] : k \in 1..Len(s)}

NoValue == "undefined"

(***************************************************************************)
(* missingScopes_  (src/src/unit/index.ts 143-156)                         *)
(***************************************************************************)
\* the while loop, with 1-based pointers: i over as, j over rs; the value is
\* the final j
RECURSIVE missingWalk(_, _, _, _)
missingWalk(rs, as, i, j) ==
  IF i <= Len(as) /\ j <= Len(rs)
    THEN IF as[i] = rs[j]
           THEN missingWalk(rs, as, i + 1, j + 1)
           ELSE missingWalk(rs, as, i + 1, j)
    ELSE j

\* a slip: the pointer into as stays on a matched element, so that one actual
\* scope can satisfy several required ones
RECURSIVE missingWalkStuck(_, _, _, _)
missingWalkStuck(rs, as, i, j) ==
  IF i <= Len(as) /\ j <= Len(rs)
    THEN IF as[i] = rs[j]
           THEN missingWalkStuck(rs, as, i, j + 1)
           ELSE missingWalkStuck(rs, as, i + 1, j)
    ELSE j

missingScopes_Stuck(rs, as) ==
  LET j == missingWalkStuck(rs, as, 1, 1)
  IN  IF j = Len(rs) + 1 THEN <<>> ELSE SubSeq(rs, j, Len(rs))

\* a slip: an incomplete match reports every required scope
missingScopes_Whole(rs, as) ==
  LET j == missingWalk(rs, as, 1, 1)
  IN  IF j = Len(rs) + 1 THEN <<>> ELSE rs

missingScopes_(rs, as) ==
  LET j == missingWalk(rs, as, 1, 1)
  IN  IF j = Len(rs) + 1 THEN <<>> ELSE SubSeq(rs, j, Len(rs))

(***************************************************************************)
(* toMap  (src/src/common.ts 22-27)                                        *)
(***************************************************************************)
\* Number.prototype.toString and template interpolation of a non-negative
\* integer: its decimal digits
RECURSIVE NumberToString(_)
NumberToString(n) == IF n < 10 THEN <<n>> ELSE NumberToString(n \div 10) \o <<n % 10>>

\* xs.reduce((m, x) => { m[f(x)] = x; return m }, {}): a later element with
\* the same key replaces an earlier one.  keys[k] is f(xs[k]).
RECURSIVE toMapFrom(_, _, _, _)
toMapFrom(keys, xs, k, m) ==
  IF k > Len(xs) THEN m
  ELSE toMapFrom(keys, xs, k + 1,
         [key \in DOMAIN m \cup {keys[k]} |->
            IF key = keys[k] THEN xs[k] ELSE m[key]])

toMap(keys, xs) == toMapFrom(keys, xs, 1, <<>>)

(***************************************************************************)
(* The tokenizer (vscode-textmate), an external collaborator               *)
(*   registry.loadGrammar(scope)       -> grammar | null                   *)
(*   grammar.tokenizeLine(line, state) -> {tokens, ruleStack}              *)
(* A grammar g is [loaded, tokens, throwsAt]: tokens[n] is the token list  *)
(* of the n-th line, throwsAt the line whose tokenization throws (0: none).*)
(* The state a call returns is the state it was given extended by the line *)
(* it consumed, so a state names exactly the lines tokenized since null.   *)
(***************************************************************************)
NullStack == <<>>

tokenizeLine(f, g, n, ruleStack) ==
  [tokens |-> g.tokens[n], ruleStack |-> Append(ruleStack, <<f, n>>)]

(***************************************************************************)
(* runGrammarTestCase  (src/src/unit/index.ts 26-94)                       *)
(***************************************************************************)
\* lines 59-67: the failure of an assertion that no token overlaps
NoTokenFailure(sa, lineNo, n) ==
  [missing |-> sa.scopes, unexpected |-> <<>>, actual |-> <<>>,
   line |-> lineNo, srcLine |-> n, start |-> sa.from, end |-> sa.to]

\* lines 70-72: excludedScopes.filter((s) => token.scopes.includes(s))
unexpectedScopes(excludedScopes, token) ==
  LET Included(s) == s \in Range(token.scopes)
  IN  SelectSeq(excludedScopes, Included)

\* lines 69-86: xs.forEach((token) => ...), pushing onto acc
RECURSIVE TokenFailures(_, _, _, _, _, _)
TokenFailures(sa, xs, k, lineNo, n, acc) ==
  IF k > Len(xs) THEN acc
  ELSE LET token == xs[k]
           unexpected == unexpectedScopes(sa.exclude, token)
           miss == missingScopes_(sa.scopes, token.scopes)
       IN  TokenFailures(sa, xs, k + 1, lineNo, n,
             IF Len(miss) > 0 \/ Len(unexpected) > 0
               THEN Append(acc,
                      [missing |-> miss, actual |-> token.scopes,
                       unexpected |-> unexpected,
                       line |-> lineNo, srcLine |-> n,
                       start |-> token.startIndex, end |-> token.endIndex])
               ELSE acc)

\* a slip: only the first overlapping token is examined
AssertionFailuresFirstOnly(sa, tokens, lineNo, n, acc) ==
  LET Overlaps(t) == sa.from < t.endIndex /\ sa.to > t.startIndex
      xs == SelectSeq(tokens, Overlaps)
  IN  IF Len(xs) = 0 /\ Len(sa.scopes) > 0
        THEN Append(acc, NoTokenFailure(sa, lineNo, n))
        ELSE TokenFailures(sa, IF Len(xs) = 0 THEN xs ELSE <<xs[1]>>, 1, lineNo, n, acc)

\* lines 54-88: the body of scopeAssertions.forEach for one assertion
AssertionFailures(sa, tokens, lineNo, n, acc) ==
  LET Overlaps(t) == sa.from < t.endIndex /\ sa.to > t.startIndex
      xs == SelectSeq(tokens, Overlaps)
  IN  IF Len(xs) = 0 /\ Len(sa.scopes) > 0
        THEN Append(acc, NoTokenFailure(sa, lineNo, n))
        ELSE TokenFailures(sa, xs, 1, lineNo, n, acc)

\* lines 53-89: scopeAssertions.forEach
RECURSIVE GroupFailures(_, _, _, _, _, _)
GroupFailures(sas, k, tokens, lineNo, n, acc) ==
  IF k > Len(sas) THEN acc
  ELSE GroupFailures(sas, k + 1, tokens, lineNo, n,
                     AssertionFailures(sas[k], tokens, lineNo, n, acc))

\* line 37: the assertion groups keyed by sourceLineNumber.toString()
AssertionKey(x) == NumberToString(x.sourceLineNumber)

\* lines 43-91: testCase.source.forEach((line, n) => ...), from the i-th line
\* (n = i - 1 is the index the code uses).  st is [ruleStack, failures,
\* calls, threw].
RECURSIVE SourceLoop(_, _, _, _, _, _)
SourceLoop(f, tc, g, assertions, i, st) ==
  IF i > Len(tc.source) \/ st.threw THEN st
  ELSE IF g.throwsAt = i
         THEN [st EXCEPT !.threw = TRUE,
                         !.calls = Append(@, [file |-> f, line |-> i,
                                              ruleStack |-> st.ruleStack])]
  ELSE LET n == i - 1
           r == tokenizeLine(f, g, i, st.ruleStack)
           fs == IF NumberToString(n) \in DOMAIN assertions
                   THEN GroupFailures(assertions[NumberToString(n)].scopeAssertions, 1,
                                      r.tokens,
                                      assertions[NumberToString(n)].testCaseLineNumber,
                                      n, st.failures)
                   ELSE st.failures
       IN  SourceLoop(f, tc, g, assertions, i + 1,
             [ruleStack |-> r.ruleStack, failures |-> fs,
              calls |-> Append(st.calls, [file |-> f, line |-> i,
                                          ruleStack |-> st.ruleStack]),
              threw |-> FALSE])

\* a slip: every line is tokenized from the null state
RECURSIVE SourceLoopReset(_, _, _, _, _, _)
SourceLoopReset(f, tc, g, assertions, i, st) ==
  IF i > Len(tc.source) \/ st.threw THEN st
  ELSE SourceLoopReset(f, tc, g, assertions, i + 1,
         SourceLoop(f, [tc EXCEPT !.source = SubSeq(@, 1, i)], g, assertions, i,
                    [st EXCEPT !.ruleStack = NullStack]))

\* the callback of loadGrammar(...).then, lines 32-93: the promise it settles
RunGrammarTestCaseReset(f, tc, g) ==
  IF ~g.loaded
    THEN [settled |-> "rejected", failures |-> <<>>, calls |-> <<>>]
    ELSE LET st == SourceLoopReset(f, tc, g, toMap([k \in 1..Len(tc.assertions) |-> AssertionKey(tc.assertions[k])],
                                      tc.assertions), 1,
                     [ruleStack |-> NullStack, failures |-> <<>>,
                      calls |-> <<>>, threw |-> FALSE])
         IN  [settled |-> IF st.threw THEN "rejected" ELSE "resolved",
              failures |-> IF st.threw THEN <<>> ELSE st.failures,
              calls |-> st.calls]

RunGrammarTestCase(f, tc, g) ==
  IF ~g.loaded
    THEN [settled |-> "rejected", failures |-> <<>>, calls |-> <<>>]
    ELSE LET st == SourceLoop(f, tc, g, toMap([k \in 1..Len(tc.assertions) |-> AssertionKey(tc.assertions[k])],
                                      tc.assertions), 1,
                     [ruleStack |-> NullStack, failures |-> <<>>,
                      calls |-> <<>>, threw |-> FALSE])
         IN  [settled |-> IF st.threw THEN "rejected" ELSE "resolved",
              failures |-> IF st.threw THEN <<>> ELSE st.failures,
              calls |-> st.calls]

(***************************************************************************)
(* diff.diffArrays (the `diff` package, called at src/unnamed/part_000     *)
(* line 126): Myers' greedy edit script over two arrays.  A component is   *)
(* [value, added, removed]; a path is [def, newPos, components] with       *)
(* newPos the 0-based index of the last consumed element of the new array. *)
(***************************************************************************)
NoPath == [def |-> FALSE, newPos |-> -1, components |-> <<>>]

\* pushComponent: one more element onto the last component when it has the
\* same kind, a new component otherwise
pushComponent(components, added, removed) ==
  LET n == Len(components)
  IN  IF n > 0 /\ components[n].added = added /\ components[n].removed = removed
        THEN [components EXCEPT ![n].count = @ + 1]
        ELSE Append(components, [count |-> 1, added |-> added, removed |-> removed])

RECURSIVE commonCount(_, _, _, _)
commonCount(new, old, newPos, oldPos) ==
  IF newPos + 1 < Len(new) /\ oldPos + 1 < Len(old) /\ new[newPos + 2] = old[oldPos + 2]
    THEN 1 + commonCount(new, old, newPos + 1, oldPos + 1)
    ELSE 0

\* extractCommon: follow the diagonal while the elements are equal
extractCommon(basePath, new, old, diagonalPath) ==
  LET c == commonCount(new, old, basePath.newPos, basePath.newPos - diagonalPath)
  IN  [def |-> TRUE,
       newPos |-> basePath.newPos + c,
       components |-> IF c > 0
                        THEN Append(basePath.components,
                                    [count |-> c, added |-> FALSE, removed |-> FALSE])
                        ELSE basePath.components]

\* execEditLength, from diagonal d on; then the next edit length
RECURSIVE execEditLength(_, _, _, _, _)
execEditLength(bestPath, editLength, d, new, old) ==
  IF d > editLength THEN execEditLength(bestPath, editLength + 1, -(editLength + 1), new, old)
  ELSE
    LET addPath == bestPath[d - 1]
        removePath == bestPath[d + 1]
        oldPos0 == (IF removePath.def THEN removePath.newPos ELSE 0) - d
        cleared == IF addPath.def THEN [bestPath EXCEPT ![d - 1] = NoPath] ELSE bestPath
        canAdd == addPath.def /\ addPath.newPos + 1 < Len(new)
        canRemove == removePath.def /\ 0 <= oldPos0 /\ oldPos0 < Len(old)
    IN  IF ~canAdd /\ ~canRemove
          THEN execEditLength([cleared EXCEPT ![d] = NoPath], editLength, d + 2, new, old)
          ELSE
            LET moved == IF ~canAdd \/ (canRemove /\ addPath.newPos < removePath.newPos)
                           THEN [removePath EXCEPT
                                   !.components = pushComponent(@, FALSE, TRUE)]
                           ELSE [addPath EXCEPT
                                   !.newPos = @ + 1,
                                   !.components = pushComponent(@, TRUE, FALSE)]
                basePath == extractCommon(moved, new, old, d)
                oldPos == basePath.newPos - d
            IN  IF basePath.newPos + 1 >= Len(new) /\ oldPos + 1 >= Len(old)
                  THEN basePath.components
                  ELSE execEditLength([cleared EXCEPT ![d] = basePath],
                                      editLength, d + 2, new, old)

\* buildValues: the elements of each component; a removal that follows an
\* addition is moved in front of it
RECURSIVE buildValues(_, _, _, _, _, _)
buildValues(components, k, new, old, newPos, oldPos) ==
  IF k > Len(components) THEN components
  ELSE LET c == components[k]
       IN  IF ~c.removed
             THEN buildValues(
                    [components EXCEPT ![k] =
                       [value |-> SubSeq(new, newPos + 1, newPos + c.count),
                        added |-> c.added, removed |-> c.removed]],
                    k + 1, new, old, newPos + c.count,
                    IF c.added THEN oldPos ELSE oldPos + c.count)
             ELSE LET v == [value |-> SubSeq(old, oldPos + 1, oldPos + c.count),
                            added |-> c.added, removed |-> c.removed]
                  IN  buildValues(
                        IF k > 1 /\ components[k - 1].added
                          THEN [components EXCEPT ![k - 1] = v, ![k] = components[k - 1]]
                          ELSE [components EXCEPT ![k] = v],
                        k + 1, new, old, newPos, oldPos + c.count)

diffArrays(old, new) ==
  LET maxEditLength == Len(new) + Len(old)
      start == extractCommon([def |-> TRUE, newPos |-> -1, components |-> <<>>],
                             new, old, 0)
      bestPath == [d \in -(maxEditLength + 2)..(maxEditLength + 2) |->
                     IF d = 0 THEN start ELSE NoPath]
  IN  IF start.newPos + 1 >= Len(new) /\ start.newPos + 1 >= Len(old)
        THEN <<[value |-> new, added |-> FALSE, removed |-> FALSE]>>
        ELSE buildValues(execEditLength(bestPath, 1, -1, new, old), 1, new, old, 0, 0)

(***************************************************************************)
(* Inputs: tokens, lines, assertions                                       *)
(***************************************************************************)
Offsets == 0..MaxTokens

\* nonempty scope lists (a token always carries its grammar's root scope)
ScopeLists == SeqUpTo(ScopeNames, MaxScopes) \ {<<>>}

ScopeListsLong == SeqUpTo(ScopeNames, MaxScopes + 1)

TokensFrom(lo) ==
  {[startIndex |-> a, endIndex |-> b, scopes |-> sc] :
     a \in {x \in Offsets : x >= lo}, b \in Offsets, sc \in ScopeLists}

\* token lists as the tokenizer produces them: start < end, ordered by
\* startIndex, no two overlapping; at most k tokens, none starting before lo
RECURSIVE TokenLists(_, _)
TokenLists(lo, k) ==
  {<<>>} \cup
  (IF k = 0 THEN {}
   ELSE UNION {{<<t>> \o rest : rest \in TokenLists(t.endIndex, k - 1)} :
                 t \in {x \in TokensFrom(lo) : x.startIndex < x.endIndex}})

LineTokens == TokenLists(0, MaxTokens)

\* [from, to) of an assertion: non-empty, possibly past the end of the line
ScopeAssertions ==
  {[from |-> r[1], to |-> r[2], scopes |-> rq, exclude |-> ex] :
     r \in {x \in Offsets \X (1..(MaxTokens + 1)) : x[1] < x[2]},
     rq \in SeqUpTo(ScopeNames, MaxScopes),
     ex \in SeqUpTo(ScopeNames, 1)}

\* one source line, one assertion group holding one scope assertion
SingleAssertionCases ==
  {[source |-> <<"x">>,
    assertions |-> <<[sourceLineNumber |-> 0, testCaseLineNumber |-> 1,
                      scopeAssertions |-> <<sa>>]>>] : sa \in ScopeAssertions}

\* several lines, with and without a group, a group holding two assertions
SomeScopeAssertions ==
  {<<[from |-> 0, to |-> 1, scopes |-> <<"a">>, exclude |-> <<>>],
     [from |-> 0, to |-> MaxTokens, scopes |-> <<>>, exclude |-> <<"b">>]>>,
   <<[from |-> 1, to |-> MaxTokens + 1, scopes |-> <<"b">>, exclude |-> <<>>]>>}

RECURSIVE GroupLists(_)
GroupLists(n) ==
  IF n = 0 THEN {<<>>}
  ELSE LET rest == GroupLists(n - 1)
       IN  rest \cup
           {Append(gs, [sourceLineNumber |-> n - 1, testCaseLineNumber |-> 2 * n - 1,
                        scopeAssertions |-> sas]) :
              gs \in rest, sas \in SomeScopeAssertions}

SomeLineTokens ==
  {<<>>,
   <<[startIndex |-> 0, endIndex |-> 1, scopes |-> <<"a">>]>>,
   <<[startIndex |-> 0, endIndex |-> 1, scopes |-> <<"b">>],
     [startIndex |-> 1, endIndex |-> MaxTokens, scopes |-> <<"a">>]>>}

MultiLineCases ==
  UNION {{[source |-> [k \in 1..n |-> "x"], assertions |-> gs] :
            gs \in GroupLists(n)} : n \in 1..MaxLines}

Grammars(n, tokenLists) ==
  {[loaded |-> FALSE, tokens |-> <<>>, throwsAt |-> 0]} \cup
  {[loaded |-> TRUE, tokens |-> tk, throwsAt |-> th] :
     tk \in [1..n -> tokenLists], th \in 0..n}

(***************************************************************************)
(* The variables of the specifications that are not running                *)
(***************************************************************************)
IdleScopes ==
  /\ required = <<>>
  /\ actualScopes = <<>>
  /\ missing = NoValue
  /\ mpc = "idle"

IdleUnit ==
  /\ testCase = NoValue
  /\ grammar = NoValue
  /\ upc = "idle"
  /\ failures = <<>>
  /\ tokenizeCalls = <<>>

IdleDiffer ==
  /\ expected = <<>>
  /\ actual = <<>>
  /\ options = NoValue
  /\ dpc = "idle"
  /\ wrongLines = NoValue
  /\ console = <<>>
  /\ result = NoValue

IdleRunner ==
  /\ runner = NoValue
  /\ program = NoValue
  /\ disk = <<>>
  /\ phase = "idle"
  /\ files = <<>>
  /\ chain = <<>>
  /\ value = <<>>
  /\ fresult = <<>>
  /\ raised = <<>>
  /\ stdout = <<>>
  /\ rcalls = <<>>
  /\ snapFile = <<>>
  /\ exitCode = NoValue
  /\ exitVia = NoValue

(***************************************************************************)
(* SpecUnit: runGrammarTestCase on one test case                           *)
(***************************************************************************)
InitUnit ==
  /\ \/ /\ testCase \in SingleAssertionCases
        /\ grammar \in Grammars(1, LineTokens)
     \/ /\ testCase \in MultiLineCases
        /\ grammar \in Grammars(Len(testCase.source), SomeLineTokens)
  /\ upc = "loading"
  /\ failures = <<>>
  /\ tokenizeCalls = <<>>
  /\ IdleScopes
  /\ IdleDiffer
  /\ IdleRunner

\* registry.loadGrammar(scope).then((grammar) => ...), lines 30-93
LoadGrammarThen ==
  /\ upc = "loading"
  /\ LET r == RunGrammarTestCase(1, testCase, grammar)
     IN  /\ upc' = r.settled
         /\ failures' = r.failures
         /\ tokenizeCalls' = r.calls
  /\ UNCHANGED <<testCase, grammar, scopesVars, differVars, runnerVars>>

NextUnit == LoadGrammarThen

SpecUnit == InitUnit /\ [][NextUnit]_vars

(***************************************************************************)
(* common.ts, snapshot/index.ts: constants and helpers                     *)
(***************************************************************************)
TestFailed == -1
TestSuccessful == 0

NotModified == 0
Removed == 1
Added == 2

\* arr.reduce((acc, val) => acc.concat(val), [])
RECURSIVE flatten(_)
flatten(arr) == IF arr = <<>> THEN <<>> ELSE Head(arr) \o flatten(Tail(arr))

\* Array.prototype.join(' '): the elements with a blank between neighbours
RECURSIVE join(_)
join(xs) ==
  IF Len(xs) = 0 THEN <<>>
  ELSE IF Len(xs) = 1 THEN <<xs[1]>>
  ELSE <<xs[1], " ">> \o join(Tail(xs))

\* String.prototype.trim on a source line (a sequence of characters)
RECURSIVE trimLeft(_)
trimLeft(src) ==
  IF src # <<>> /\ Head(src) = " " THEN trimLeft(Tail(src)) ELSE src

RECURSIVE trimRight(_)
trimRight(src) ==
  IF src # <<>> /\ src[Len(src)] = " " THEN trimRight(SubSeq(src, 1, Len(src) - 1))
  ELSE src

trim(src) == trimRight(trimLeft(src))

(***************************************************************************)
(* renderSnapshotTestResult  (src/unnamed/part_000 35-194)                 *)
(***************************************************************************)
\* lines 81, 85, 91, 107, 124: `${t.startIndex}:${t.startIndex}`
\* a slip: the key holds both offsets
TokenKeyWithEnd(t) == NumberToString(t.startIndex) \o <<":">> \o NumberToString(t.endIndex)

TokenKey(t) == NumberToString(t.startIndex) \o <<":">> \o NumberToString(t.startIndex)

\* lines 93-104 and 109-120
WholeTokenChange(t, changeType) ==
  [changes |-> <<[text |-> join(t.scopes), changeType |-> changeType]>>,
   from |-> t.startIndex, to |-> t.endIndex]

\* lines 135-145
ToTChange(change) ==
  [text |-> join(change.value),
   changeType |-> IF change.added THEN Added
                  ELSE IF change.removed THEN Removed ELSE NotModified]

\* a slip: the arguments of diffArrays exchanged
ModifiedOfSwapped(a, expTokenMap) ==
  IF TokenKey(a) \in DOMAIN expTokenMap
    THEN LET changes == diffArrays(a.scopes, expTokenMap[TokenKey(a)].scopes)
         IN  IF Len(changes) = 1 /\ ~changes[1].added /\ ~changes[1].removed
               THEN <<>>
               ELSE <<[changes |-> [k \in 1..Len(changes) |-> ToTChange(changes[k])],
                       from |-> a.startIndex, to |-> a.endIndex]>>
    ELSE <<>>

\* a slip: every token that has a counterpart is reported, changed or not
ModifiedOfAlways(a, expTokenMap) ==
  IF TokenKey(a) \in DOMAIN expTokenMap
    THEN LET changes == diffArrays(expTokenMap[TokenKey(a)].scopes, a.scopes)
         IN  <<[changes |-> [k \in 1..Len(changes) |-> ToTChange(changes[k])],
                from |-> a.startIndex, to |-> a.endIndex]>>
    ELSE <<>>

\* lines 123-156: what one actual token contributes to `modified`
ModifiedOf(a, expTokenMap) ==
  IF TokenKey(a) \in DOMAIN expTokenMap
    THEN LET changes == diffArrays(expTokenMap[TokenKey(a)].scopes, a.scopes)
         IN  IF Len(changes) = 1 /\ ~changes[1].added /\ ~changes[1].removed
               THEN <<>>
               ELSE <<[changes |-> [k \in 1..Len(changes) |-> ToTChange(changes[k])],
                       from |-> a.startIndex, to |-> a.endIndex]>>
    ELSE <<>>

\* line 162
CompareChanges(x, y) == (x.from - y.from) * 10000 + (x.to - y.to)

\* Array.prototype.sort with the comparator of line 162.  The comparator is
\* the difference of two weights, so every sorting algorithm orders by it;
\* the sort is stable: x goes behind every element it does not compare below.
RECURSIVE insertSorted(_, _)
insertSorted(sorted, x) ==
  IF sorted = <<>> THEN <<x>>
  ELSE IF CompareChanges(x, Head(sorted)) < 0 THEN <<x>> \o sorted
  ELSE <<Head(sorted)>> \o insertSorted(Tail(sorted), x)

RECURSIVE sortFrom(_, _, _)
sortFrom(xs, k, acc) ==
  IF k > Len(xs) THEN acc
  ELSE sortFrom(xs, k + 1, insertSorted(acc, xs[k]))

sort(xs) == sortFrom(xs, 1, <<>>)

TokenKeys(tokens) == [k \in 1..Len(tokens) |-> TokenKey(tokens[k])]

\* lines 77-162: the changes of one line
LineChanges(exp, act) ==
  LET expTokenMap == toMap(TokenKeys(exp.tokens), exp.tokens)
      actTokenMap == toMap(TokenKeys(act.tokens), act.tokens)
      NotInAct(t) == TokenKey(t) \notin DOMAIN actTokenMap
      NotInExp(t) == TokenKey(t) \notin DOMAIN expTokenMap
      expGone == SelectSeq(exp.tokens, NotInAct)
      actNew == SelectSeq(act.tokens, NotInExp)
      removed == [k \in 1..Len(expGone) |-> WholeTokenChange(expGone[k], Removed)]
      added == [k \in 1..Len(actNew) |-> WholeTokenChange(actNew[k], Added)]
      modified == flatten([k \in 1..Len(act.tokens) |->
                             ModifiedOf(act.tokens[k], expTokenMap)])
  IN  sort(modified \o added \o removed)

WrongLine(exp, act, i) ==
  LET allChanges == LineChanges(exp, act)
  IN  IF Len(allChanges) > 0 THEN <<<<allChanges, exp.src, i>>>> ELSE <<>>

\* lines 73-74
NotBlank(a) == Len(trim(a.src)) > 0

\* lines 76-169
ComputeWrongLines(exp, act) ==
  LET actual1 == SelectSeq(act, NotBlank)
      expected1 == SelectSeq(exp, NotBlank)
  IN  flatten([k \in 1..Len(expected1) |-> WrongLine(expected1[k], actual1[k], k - 1)])

\* printSourceLine, lines 265-270
printSourceLine(line, n) == [kind |-> "sourceLine", pos |-> n + 1, line |-> line]

\* printDiffInline, lines 196-216: the console.log calls for one wrong line
InlineAccents(tchanges, printNotModified) ==
  LET Shown(c) == printNotModified \/ c.changeType # NotModified
  IN  [kind |-> "accents", from |-> tchanges.from, to |-> tchanges.to,
       diff |-> SelectSeq(tchanges.changes, Shown)]

\* printDiffOnTwoLines, lines 218-259
TwoLineAccents(tchanges, printNotModified) ==
  LET IsRemoved(c) == c.changeType = Removed \/ (c.changeType = NotModified /\ printNotModified)
      IsAdded(c) == c.changeType = Added \/ (c.changeType = NotModified /\ printNotModified)
  IN  <<[kind |-> "accents--", from |-> tchanges.from, to |-> tchanges.to,
         diff |-> SelectSeq(tchanges.changes, IsRemoved)],
        [kind |-> "accents++", from |-> tchanges.from, to |-> tchanges.to,
         diff |-> SelectSeq(tchanges.changes, IsAdded)]>>

PrintWrongLine(w, opts) ==
  LET One(tchanges) == IF opts.expandDiff
                         THEN TwoLineAccents(tchanges, opts.printNotModified)
                         ELSE <<InlineAccents(tchanges, opts.printNotModified)>>
  IN  <<printSourceLine(w[2], w[3])>>
      \o flatten([k \in 1..Len(w[1]) |-> One(w[1][k])])
      \o <<[kind |-> "blank"]>>

\* lines 171-193: what is printed for the file, and the value returned
PrintDiff(wrong, opts) ==
  LET One(w) == PrintWrongLine(w, opts)
  IN  IF Len(wrong) > 0
        THEN <<[kind |-> "ERROR in test case"], [kind |-> "-- existing snapshot"],
               [kind |-> "++ new changes"], [kind |-> "blank"]>>
             \o flatten([k \in 1..Len(wrong) |-> One(wrong[k])]) \o <<[kind |-> "blank"]>>
        ELSE <<[kind |-> "run successfully"]>>

\* a slip: only the first line's source is compared
FirstSourceMismatchHead(exp, act, i) ==
  IF i <= Len(exp) /\ exp[i].src # act[i].src THEN i ELSE 0

\* lines 55-69: the first line whose source differs, 0 when there is none
RECURSIVE FirstSourceMismatch(_, _, _)
FirstSourceMismatch(exp, act, i) ==
  IF i > Len(exp) THEN 0
  ELSE IF exp[i].src # act[i].src THEN i
  ELSE FirstSourceMismatch(exp, act, i + 1)

(***************************************************************************)
(* SpecDiffer: renderSnapshotTestResult on one (expected, actual)          *)
(***************************************************************************)
\* scope lists of the differ's tokens
DiffScopeLists == {<<"a">>, <<"a", "b">>, <<"b">>}

RECURSIVE DiffTokenLists(_, _)
DiffTokenLists(lo, k) ==
  {<<>>} \cup
  (IF k = 0 THEN {}
   ELSE UNION {{<<t>> \o rest : rest \in DiffTokenLists(t.endIndex, k - 1)} :
                 t \in {x \in TokensFrom(lo) :
                          x.startIndex < x.endIndex /\ x.scopes \in DiffScopeLists}})

\* one line, one token on each side, any two scope lists
ScopeRichInputs ==
  {<<<<[src |-> <<"x">>, tokens |-> <<[startIndex |-> 0, endIndex |-> 1, scopes |-> e]>>]>>,
     <<[src |-> <<"x">>, tokens |-> <<[startIndex |-> 0, endIndex |-> b, scopes |-> a]>>]>>>> :
     e \in ScopeListsLong, a \in ScopeListsLong, b \in {1, MaxTokens}}

\* one line, any two token lists
TokenRichInputs ==
  {<<<<[src |-> <<"x", "y">>, tokens |-> te]>>, <<[src |-> <<"x", "y">>, tokens |-> ta]>>>> :
     te \in DiffTokenLists(0, MaxTokens), ta \in DiffTokenLists(0, MaxTokens)}

\* several lines, blank and not, with few token lists
SomeLines ==
  {[src |-> sr, tokens |-> tk] :
     sr \in {<<" ">>, <<"x">>, <<"y", " ">>},
     tk \in {<<[startIndex |-> 0, endIndex |-> 1, scopes |-> <<"a">>]>>,
             <<[startIndex |-> 0, endIndex |-> 1, scopes |-> <<"a", "b">>]>>}}

LineRichInputs ==
  SeqUpTo(SomeLines, MaxLines) \X SeqUpTo(SomeLines, MaxLines)

\* the tokens of one long line as a tokenizer yields them: they cover the
\* line from lo to its end, with boundaries among the first offsets
RECURSIVE CoverLists(_)
CoverLists(lo) ==
  {<<[startIndex |-> lo, endIndex |-> LongLine, scopes |-> sc]>> : sc \in {<<"a">>, <<"b">>}}
  \cup UNION {{<<[startIndex |-> lo, endIndex |-> c, scopes |-> sc]>> \o rest :
                 sc \in {<<"a">>, <<"b">>}, rest \in CoverLists(c)} :
              c \in (lo + 1)..(MaxTokens + 1)}

\* one long line, any two such token lists
LongLineInputs ==
  {<<<<[src |-> <<"x">>, tokens |-> te]>>, <<[src |-> <<"x">>, tokens |-> ta]>>>> :
     te \in CoverLists(0), ta \in CoverLists(0)}

InitDiffer ==
  /\ \E in \in ScopeRichInputs \cup TokenRichInputs \cup LineRichInputs \cup LongLineInputs :
        /\ expected = in[1]
        /\ actual = in[2]
  /\ options \in [printNotModified : BOOLEAN, expandDiff : BOOLEAN]
  /\ dpc = "lineCount"
  /\ wrongLines = NoValue
  /\ console = <<>>
  /\ result = NoValue
  /\ IdleScopes
  /\ IdleUnit
  /\ IdleRunner

\* lines 44-53
CheckLineCount ==
  /\ dpc = "lineCount"
  /\ IF Len(expected) # Len(actual)
       THEN /\ console' = Append(console, [kind |-> "different number of lines"])
            /\ result' = TestFailed
            /\ dpc' = "done"
       ELSE /\ dpc' = "sources"
            /\ UNCHANGED <<console, result>>
  /\ UNCHANGED <<expected, actual, options, wrongLines, scopesVars, unitVars, runnerVars>>

\* lines 55-69
CheckSources ==
  /\ dpc = "sources"
  /\ LET i == FirstSourceMismatch(expected, actual, 1)
     IN  IF i # 0
           THEN /\ console' = Append(console, [kind |-> "source different", line |-> i])
                /\ result' = TestFailed
                /\ dpc' = "done"
           ELSE /\ dpc' = "tokens"
                /\ UNCHANGED <<console, result>>
  /\ UNCHANGED <<expected, actual, options, wrongLines, scopesVars, unitVars, runnerVars>>

\* lines 71-193.  Line 78 reads actual1[i]: were actual1 the shorter list,
\* act would be undefined and line 84 would throw a TypeError.
CompareTokens ==
  /\ dpc = "tokens"
  /\ IF Len(SelectSeq(actual, NotBlank)) < Len(SelectSeq(expected, NotBlank))
       THEN \* actual1[i] is undefined: reading its tokens throws
            /\ dpc' = "threw"
            /\ UNCHANGED <<wrongLines, console, result>>
       ELSE /\ wrongLines' = ComputeWrongLines(expected, actual)
            /\ console' = console \o PrintDiff(wrongLines', options)
            /\ result' = IF Len(wrongLines') > 0 THEN TestFailed ELSE TestSuccessful
            /\ dpc' = "done"
  /\ UNCHANGED <<expected, actual, options, scopesVars, unitVars, runnerVars>>

NextDiffer == CheckLineCount \/ CheckSources \/ CompareTokens

SpecDiffer == InitDiffer /\ [][NextDiffer]_vars

(***************************************************************************)
(* renderSnapshotTestResult as one call, for the snapshot runner           *)
(***************************************************************************)
RenderSnapshotTestResult(exp, act, opts) ==
  IF Len(exp) # Len(act)
    THEN [threw |-> FALSE, result |-> TestFailed,
          console |-> <<[kind |-> "different number of lines"]>>]
  ELSE IF FirstSourceMismatch(exp, act, 1) # 0
    THEN [threw |-> FALSE, result |-> TestFailed,
          console |-> <<[kind |-> "source different",
                         line |-> FirstSourceMismatch(exp, act, 1)]>>]
  ELSE IF Len(SelectSeq(act, NotBlank)) < Len(SelectSeq(exp, NotBlank))
    THEN [threw |-> TRUE, result |-> NoValue, console |-> <<>>]
  ELSE LET wrong == ComputeWrongLines(exp, act)
       IN  [threw |-> FALSE,
            result |-> IF Len(wrong) > 0 THEN TestFailed ELSE TestSuccessful,
            console |-> PrintDiff(wrong, opts)]

(***************************************************************************)
(* getVSCodeTokens  (src/unnamed/part_000 8-33)                            *)
(***************************************************************************)
\* lines 20-31: source.split(...).map((line, n) => ...), from the i-th line.
\* st is [ruleStack, lines, calls, threw].
RECURSIVE TokenLoop(_, _, _, _, _)
TokenLoop(f, source, g, i, st) ==
  IF i > Len(source) \/ st.threw THEN st
  ELSE IF g.throwsAt = i
         THEN [st EXCEPT !.threw = TRUE,
                         !.calls = Append(@, [file |-> f, line |-> i,
                                              ruleStack |-> st.ruleStack])]
  ELSE LET r == tokenizeLine(f, g, i, st.ruleStack)
       IN  TokenLoop(f, source, g, i + 1,
             [ruleStack |-> r.ruleStack,
              lines |-> Append(st.lines, [src |-> source[i], tokens |-> r.tokens]),
              calls |-> Append(st.calls, [file |-> f, line |-> i,
                                          ruleStack |-> st.ruleStack]),
              threw |-> FALSE])

\* the callback of loadGrammar(...).then, lines 13-32: the promise it settles
GetVSCodeTokens(f, source, g) ==
  IF ~g.loaded
    THEN [settled |-> "rejected", tokens |-> <<>>, calls |-> <<>>]
    ELSE LET st == TokenLoop(f, source, g, 1,
                     [ruleStack |-> NullStack, lines |-> <<>>,
                      calls |-> <<>>, threw |-> FALSE])
         IN  [settled |-> IF st.threw THEN "rejected" ELSE "resolved",
              tokens |-> IF st.threw THEN <<>> ELSE st.lines,
              calls |-> st.calls]

(***************************************************************************)
(* renderSnap, parseSnap  (snapshot/parsing.ts, not among the sources;     *)
(* modelled from the specification, section 4.2)                           *)
(***************************************************************************)
\* a blank line gets no assertion output; everything else is kept
renderSnap(tokens) ==
  [wellFormed |-> TRUE,
   lines |-> [k \in 1..Len(tokens) |->
                IF NotBlank(tokens[k]) THEN tokens[k]
                ELSE [src |-> tokens[k].src, tokens |-> <<>>]]]

\* parseSnap(text): malformed text throws
parseSnap(text) == text.lines

(***************************************************************************)
(* Output of the unit runner  (src/src/unit/index.ts 161-297)              *)
(***************************************************************************)
\* getCorrectedOffsets, lines 289-297
getCorrectedOffsets(failure) ==
  [l |-> failure.line + 1, s |-> failure.start + 1, e |-> failure.end + 1]

\* printReason, lines 178-196
printReason(failure) ==
  (IF Len(failure.missing) > 0
     THEN <<[kind |-> "missing required scopes", scopes |-> join(failure.missing)]>>
     ELSE <<>>)
  \o (IF Len(failure.unexpected) > 0
        THEN <<[kind |-> "prohibited scopes", scopes |-> join(failure.unexpected)]>>
        ELSE <<>>)
  \o <<[kind |-> "actual", scopes |-> join(failure.actual)]>>

\* lines 214-226: what displayTestResultFull prints for one failure
FullFailureLines(failure) ==
  <<[kind |-> "at", pos |-> getCorrectedOffsets(failure)],
    [kind |-> "source", pos |-> failure.line + 1],
    [kind |-> "accents", from |-> failure.start, to |-> failure.end]>>
  \o printReason(failure)
  \o <<[kind |-> "EOL"]>>

\* displayTestResultFull, lines 198-230
displayTestResultFull(fs) ==
  IF Len(fs) = 0
    THEN [result |-> TestSuccessful, console |-> <<[kind |-> "run successfuly"]>>]
    ELSE [result |-> TestFailed,
          console |-> <<[kind |-> "failed"]>>
                      \o flatten([k \in 1..Len(fs) |-> FullFailureLines(fs[k])])
                      \o <<[kind |-> "blank"]>>]

\* displayTestResultCompact, lines 249-271
displayTestResultCompact(fs) ==
  IF Len(fs) = 0
    THEN [result |-> TestSuccessful, console |-> <<[kind |-> "run successfuly"]>>]
    ELSE [result |-> TestFailed,
          console |-> [k \in 1..Len(fs) |->
                         [kind |-> "ERROR", pos |-> getCorrectedOffsets(fs[k]),
                          missing |-> join(fs[k].missing),
                          unexpected |-> join(fs[k].unexpected),
                          actual |-> join(fs[k].actual)]]]

\* handleGrammarTestError, lines 273-286
handleGrammarTestError ==
  [result |-> TestFailed,
   console |-> <<[kind |-> "aborted due to an error"], [kind |-> "reason"]>>]

(***************************************************************************)
(* The runners: src/src/unit/index.ts 378-431 and src/src/snapshot.ts      *)
(* 59-124                                                                  *)
(***************************************************************************)
\* console.log calls of file f (0: of no file)
Tagged(f, lines) == [k \in 1..Len(lines) |-> [file |-> f, line |-> lines[k]]]

\* process.exit(code): the exit status is the low byte of the code
ExitStatus(code) == code % 256

\* a slip: the last result instead of the sum
reduceLast(xs) == IF xs = <<>> THEN 0 ELSE xs[Len(xs)]

\* xs.reduce((a, b) => a + b, 0)
RECURSIVE reduceSum(_)
reduceSum(xs) == IF xs = <<>> THEN 0 ELSE Head(xs) + reduceSum(Tail(xs))

\* ---- what a run can find on disk
TokensA == <<[startIndex |-> 0, endIndex |-> 1, scopes |-> <<"a">>]>>
TokensB == <<[startIndex |-> 0, endIndex |-> 1, scopes |-> <<"b">>]>>

RunnerSource == [k \in 1..MaxLines |-> <<"x">>]

RunnerGrammar(tok, th) ==
  [loaded |-> TRUE, tokens |-> [k \in 1..MaxLines |-> tok], throwsAt |-> th]

NullGrammar == [loaded |-> FALSE, tokens |-> <<>>, throwsAt |-> 0]

RunnerGrammars ==
  {NullGrammar, RunnerGrammar(TokensA, 0), RunnerGrammar(TokensB, 0),
   RunnerGrammar(TokensA, 1), RunnerGrammar(TokensA, MaxLines)}

\* a test case asserting scope a on [0, 1) of source line n
RunnerCase(n) ==
  [source |-> RunnerSource,
   assertions |-> <<[sourceLineNumber |-> n, testCaseLineNumber |-> n + 1,
                     scopeAssertions |-> <<[from |-> 0, to |-> 1, scopes |-> <<"a">>,
                                            exclude |-> <<>>]>>]>>]

NoSnap == [exists |-> FALSE]
Snap(text) == [exists |-> TRUE, text |-> text]
SnapOf(tok) == Snap(renderSnap([k \in 1..MaxLines |-> [src |-> <<"x">>, tokens |-> tok]]))
ShortSnap == Snap(renderSnap([k \in 1..(MaxLines - 1) |-> [src |-> <<"x">>, tokens |-> TokensA]]))
MalformedSnap == Snap([wellFormed |-> FALSE, lines |-> <<>>])

NoCase == [source |-> <<>>, assertions |-> <<>>]

UnitDisks ==
  {[readable |-> FALSE, testCase |-> NoCase, source |-> <<>>, grammar |-> NullGrammar,
    writable |-> TRUE, snap |-> NoSnap]}
  \cup {[readable |-> TRUE, testCase |-> RunnerCase(n), source |-> RunnerSource, grammar |-> g,
         writable |-> TRUE, snap |-> NoSnap] :
          n \in {0, MaxLines - 1}, g \in RunnerGrammars}

SnapshotDisk(g, snap, w) ==
  [readable |-> TRUE, testCase |-> NoValue, source |-> RunnerSource, grammar |-> g,
   writable |-> w, snap |-> snap]

SnapshotDisks ==
  {[readable |-> FALSE, testCase |-> NoValue, source |-> <<>>, grammar |-> NullGrammar,
    writable |-> TRUE, snap |-> NoSnap],
   SnapshotDisk(NullGrammar, NoSnap, TRUE),
   SnapshotDisk(RunnerGrammar(TokensA, MaxLines), SnapOf(TokensA), TRUE),
   SnapshotDisk(RunnerGrammar(TokensA, 0), NoSnap, TRUE),
   SnapshotDisk(RunnerGrammar(TokensA, 0), NoSnap, FALSE),
   SnapshotDisk(RunnerGrammar(TokensA, 0), SnapOf(TokensA), TRUE),
   SnapshotDisk(RunnerGrammar(TokensB, 0), SnapOf(TokensA), FALSE),
   SnapshotDisk(RunnerGrammar(TokensA, 0), MalformedSnap, TRUE),
   SnapshotDisk(RunnerGrammar(TokensA, 0), ShortSnap, TRUE)}

Programs(r) ==
  IF r = "unit"
    THEN {[compact |-> c, updateSnapshot |-> FALSE, printNotModified |-> FALSE,
           expandDiff |-> FALSE] : c \in BOOLEAN}
    ELSE {[compact |-> FALSE, updateSnapshot |-> u, printNotModified |-> pn,
           expandDiff |-> ed] : u \in BOOLEAN, pn \in BOOLEAN, ed \in BOOLEAN}

InitRunner ==
  /\ runner \in {"unit", "snapshot"}
  /\ program \in Programs(runner)
  /\ \E n \in 0..MaxFiles :
        disk \in [1..n -> IF runner = "unit" THEN UnitDisks ELSE SnapshotDisks]
  /\ phase = "glob"
  /\ files = <<>>
  /\ chain = [f \in DOMAIN disk |-> "unmapped"]
  /\ value = [f \in DOMAIN disk |-> NoValue]
  /\ fresult = [f \in DOMAIN disk |-> NoValue]
  /\ raised = [f \in DOMAIN disk |-> FALSE]
  /\ stdout = <<>>
  /\ rcalls = <<>>
  /\ snapFile = [f \in DOMAIN disk |-> disk[f].snap]
  /\ exitCode = NoValue
  /\ exitVia = NoValue
  /\ IdleScopes
  /\ IdleUnit
  /\ IdleDiffer

Idle3 == UNCHANGED <<scopesVars, unitVars, differVars>>

\* the glob callback when glob reports an error (unit 379-388, snapshot 60-69)
GlobError ==
  /\ phase = "glob"
  /\ stdout' = stdout \o Tagged(0, <<[kind |-> "glob pattern is incorrect"], [kind |-> "err"]>>)
  /\ phase' = "exited"
  /\ exitCode' = ExitStatus(-1)
  /\ exitVia' = "glob error"
  /\ UNCHANGED <<runner, program, disk, files, chain, value, fresult, raised, rcalls, snapFile>>
  /\ Idle3

\* the glob callback of the unit runner, lines 378-422: files.map runs to its
\* end before any promise callback
UnitGlob ==
  /\ phase = "glob"
  /\ runner = "unit"
  /\ LET fs == [k \in 1..Len(disk) |-> k]
     IN  IF Len(fs) = 0
           THEN /\ stdout' = stdout \o Tagged(0, <<[kind |-> "no test cases found"]>>)
                /\ phase' = "exited"
                /\ exitCode' = ExitStatus(-1)
                /\ exitVia' = "no files"
                /\ UNCHANGED <<files, chain, fresult, raised>>
           ELSE /\ files' = fs
                /\ stdout' = stdout \o flatten([k \in 1..Len(fs) |->
                                IF disk[fs[k]].readable THEN <<>>
                                ELSE Tagged(fs[k], <<[kind |-> "can't parse testcase"],
                                                     [kind |-> "error"]>>)])
                /\ chain' = [f \in DOMAIN disk |->
                               IF disk[f].readable THEN "load" ELSE "settled"]
                /\ fresult' = [f \in DOMAIN disk |->
                                 IF disk[f].readable THEN NoValue ELSE TestFailed]
                /\ raised' = [f \in DOMAIN disk |-> ~disk[f].readable]
                /\ phase' = "running"
                /\ UNCHANGED <<exitCode, exitVia>>
  /\ UNCHANGED <<runner, program, disk, value, rcalls, snapFile>>
  /\ Idle3

\* runGrammarTestCase's callback for file f
UnitTokenize(f) ==
  /\ phase = "running"
  /\ runner = "unit"
  /\ chain[f] = "load"
  /\ LET r == RunGrammarTestCase(f, disk[f].testCase, disk[f].grammar)
     IN  /\ chain' = [chain EXCEPT ![f] = r.settled]
         /\ value' = [value EXCEPT ![f] = r.failures]
         /\ rcalls' = rcalls \o r.calls
         /\ raised' = [raised EXCEPT ![f] = (r.settled = "rejected")]
  /\ UNCHANGED <<runner, program, disk, phase, files, fresult, stdout, snapFile,
                 exitCode, exitVia>>
  /\ Idle3

\* lines 413-415: .then((failures) => displayTestResult(...))
UnitDisplay(f) ==
  /\ phase = "running"
  /\ runner = "unit"
  /\ chain[f] = "resolved"
  /\ LET r == IF program.compact THEN displayTestResultCompact(value[f])
              ELSE displayTestResultFull(value[f])
     IN  /\ stdout' = stdout \o Tagged(f, r.console)
         /\ fresult' = [fresult EXCEPT ![f] = r.result]
  /\ chain' = [chain EXCEPT ![f] = "settled"]
  /\ UNCHANGED <<runner, program, disk, phase, files, value, raised, rcalls, snapFile,
                 exitCode, exitVia>>
  /\ Idle3

\* lines 416-418: .catch((error) => handleGrammarTestError(...))
UnitCatch(f) ==
  /\ phase = "running"
  /\ runner = "unit"
  /\ chain[f] = "rejected"
  /\ stdout' = stdout \o Tagged(f, handleGrammarTestError.console)
  /\ fresult' = [fresult EXCEPT ![f] = handleGrammarTestError.result]
  /\ chain' = [chain EXCEPT ![f] = "settled"]
  /\ UNCHANGED <<runner, program, disk, phase, files, value, raised, rcalls, snapFile,
                 exitCode, exitVia>>
  /\ Idle3

\* the callback of Promise.all(...).then (unit 423-430, snapshot 116-123)
Exit ==
  /\ phase = "running"
  /\ \A f \in DOMAIN chain : chain[f] = "settled"
  /\ LET xs == [k \in 1..Len(files) |-> fresult[files[k]]]
         res == reduceSum(xs)
     IN  exitCode' = IF res = TestSuccessful THEN ExitStatus(0) ELSE ExitStatus(-1)
  /\ exitVia' = "reduce"
  /\ phase' = "exited"
  /\ UNCHANGED <<runner, program, disk, files, chain, value, fresult, raised, stdout,
                 rcalls, snapFile>>
  /\ Idle3

\* the files the map of snapshot.ts reads before one cannot be read
RECURSIVE ReadableBefore(_)
ReadableBefore(k) ==
  IF k > Len(disk) \/ ~disk[k].readable THEN k - 1 ELSE ReadableBefore(k + 1)

\* the glob callback of the snapshot runner, lines 59-114.  files0 holds the
\* test files and, when the pattern matches them, their .snap files; line 70
\* drops those.  readFileSync (line 78) is called outside any promise and
\* outside any try: when it throws, the exception leaves the glob callback
\* uncaught and the process ends with status 1.
SnapGlob ==
  /\ phase = "glob"
  /\ runner = "snapshot"
  /\ \E withSnaps \in BOOLEAN :
       LET files0 == flatten([k \in 1..Len(disk) |->
                        IF withSnaps /\ snapFile[k].exists
                          THEN <<[name |-> k, snap |-> FALSE], [name |-> k, snap |-> TRUE]>>
                          ELSE <<[name |-> k, snap |-> FALSE]>>])
           NotSnap(x) == ~x.snap
           kept == SelectSeq(files0, NotSnap)
           fs == [k \in 1..Len(kept) |-> kept[k].name]
           good == ReadableBefore(1)
       IN  IF Len(fs) = 0
             THEN /\ stdout' = stdout \o Tagged(0, <<[kind |-> "no test cases found"]>>)
                  /\ phase' = "exited"
                  /\ exitCode' = ExitStatus(-1)
                  /\ exitVia' = "no files"
                  /\ UNCHANGED <<files, chain, raised>>
             ELSE /\ files' = fs
                  /\ chain' = [f \in DOMAIN disk |-> IF f <= good THEN "load" ELSE "unmapped"]
                  /\ raised' = [f \in DOMAIN disk |-> f = good + 1]
                  /\ IF good < Len(fs)
                       THEN /\ phase' = "exited"
                            /\ exitCode' = 1
                            /\ exitVia' = "uncaught exception"
                       ELSE /\ phase' = "running"
                            /\ UNCHANGED <<exitCode, exitVia>>
                  /\ UNCHANGED stdout
  /\ UNCHANGED <<runner, program, disk, value, fresult, rcalls, snapFile>>
  /\ Idle3

\* getVSCodeTokens' callback for file f
SnapTokenize(f) ==
  /\ phase = "running"
  /\ runner = "snapshot"
  /\ chain[f] = "load"
  /\ LET r == GetVSCodeTokens(f, disk[f].source, disk[f].grammar)
     IN  /\ chain' = [chain EXCEPT ![f] = r.settled]
         /\ value' = [value EXCEPT ![f] = r.tokens]
         /\ rcalls' = rcalls \o r.calls
         /\ raised' = [raised EXCEPT ![f] = (r.settled = "rejected")]
  /\ UNCHANGED <<runner, program, disk, phase, files, fresult, stdout, snapFile,
                 exitCode, exitVia>>
  /\ Idle3

\* a slip: the snapshot is written on every run
WritesSnapshotAlways(exists, updateSnapshot) == TRUE

\* lines 81-82 and 95: the branches that call writeFileSync
WritesSnapshot(exists, updateSnapshot) == ~exists \/ updateSnapshot

\* lines 80-103: .then((tokens) => ...)
SnapThen(f) ==
  /\ phase = "running"
  /\ runner = "snapshot"
  /\ chain[f] = "resolved"
  /\ IF ~WritesSnapshot(snapFile[f].exists, program.updateSnapshot)
       THEN \* lines 90-93
            IF ~snapFile[f].text.wellFormed
              THEN /\ chain' = [chain EXCEPT ![f] = "rejected"]
                   /\ raised' = [raised EXCEPT ![f] = TRUE]
                   /\ UNCHANGED <<stdout, fresult, snapFile>>
              ELSE LET r == RenderSnapshotTestResult(parseSnap(snapFile[f].text), value[f],
                                                     program)
                   IN  /\ stdout' = stdout \o Tagged(f, r.console)
                       /\ chain' = [chain EXCEPT ![f] = IF r.threw THEN "rejected" ELSE "settled"]
                       /\ fresult' = [fresult EXCEPT ![f] = r.result]
                       /\ raised' = [raised EXCEPT ![f] = r.threw]
                       /\ UNCHANGED snapFile
       ELSE \* lines 83-88 and 96-101: the message, then writeFileSync
            /\ stdout' = stdout \o Tagged(f, <<[kind |-> IF snapFile[f].exists
                                                          THEN "Updating snapshot"
                                                          ELSE "Generating snapshot"]>>)
            /\ IF disk[f].writable
                 THEN /\ snapFile' = [snapFile EXCEPT ![f] = Snap(renderSnap(value[f]))]
                      /\ fresult' = [fresult EXCEPT ![f] = TestSuccessful]
                      /\ chain' = [chain EXCEPT ![f] = "settled"]
                      /\ UNCHANGED raised
                 ELSE /\ chain' = [chain EXCEPT ![f] = "rejected"]
                      /\ raised' = [raised EXCEPT ![f] = TRUE]
                      /\ UNCHANGED <<snapFile, fresult>>
  /\ UNCHANGED <<runner, program, disk, phase, files, value, rcalls, exitCode, exitVia>>
  /\ Idle3

\* lines 104-112: .catch((error) => ...)
SnapCatch(f) ==
  /\ phase = "running"
  /\ runner = "snapshot"
  /\ chain[f] = "rejected"
  /\ stdout' = stdout \o Tagged(f, <<[kind |-> "can't run testcase"], [kind |-> "error"]>>)
  /\ fresult' = [fresult EXCEPT ![f] = TestFailed]
  /\ chain' = [chain EXCEPT ![f] = "settled"]
  /\ UNCHANGED <<runner, program, disk, phase, files, value, raised, rcalls, snapFile,
                 exitCode, exitVia>>
  /\ Idle3

NextRunner ==
  \/ GlobError
  \/ UnitGlob
  \/ SnapGlob
  \/ Exit
  \/ \E f \in DOMAIN disk :
        \/ UnitTokenize(f)
        \/ UnitDisplay(f)
        \/ UnitCatch(f)
        \/ SnapTokenize(f)
        \/ SnapThen(f)
        \/ SnapCatch(f)

SpecRunner == InitRunner /\ [][NextRunner]_vars

(***************************************************************************)
(* SpecSnapshotRuns: the snapshot command run again and again on one test  *)
(* file.  The .snap file of a test file is filename + '.snap', a path of   *)
(* its own, so one file shows what a run does to a snapshot.               *)
(***************************************************************************)
InitSnapshotRuns ==
  /\ InitRunner
  /\ runner = "snapshot"
  /\ Len(disk) = 1

\* the command is started again: another process, the same .snap files,
\* possibly other options, another grammar, other file permissions
RunAgain ==
  /\ phase = "exited"
  /\ runner = "snapshot"
  /\ program' \in Programs(runner)
  /\ \E g \in RunnerGrammars, w \in BOOLEAN :
        disk' = [f \in DOMAIN disk |->
                   [disk[f] EXCEPT !.readable = TRUE, !.source = RunnerSource,
                                   !.grammar = g, !.writable = w]]
  /\ phase' = "glob"
  /\ files' = <<>>
  /\ chain' = [f \in DOMAIN disk |-> "unmapped"]
  /\ value' = [f \in DOMAIN disk |-> NoValue]
  /\ fresult' = [f \in DOMAIN disk |-> NoValue]
  /\ raised' = [f \in DOMAIN disk |-> FALSE]
  /\ stdout' = <<>>
  /\ rcalls' = <<>>
  /\ exitCode' = NoValue
  /\ exitVia' = NoValue
  /\ UNCHANGED <<runner, snapFile>>
  /\ Idle3

NextSnapshotRuns ==
  \/ GlobError
  \/ SnapGlob
  \/ Exit
  \/ RunAgain
  \/ \E f \in DOMAIN disk :
        \/ SnapTokenize(f)
        \/ SnapThen(f)
        \/ SnapCatch(f)

SpecSnapshotRuns == InitSnapshotRuns /\ [][NextSnapshotRuns]_vars

(***************************************************************************)
(* SpecScopes: one call of missingScopes_                                  *)
(***************************************************************************)
InitScopes ==
  /\ required \in ScopeListsLong
  /\ actualScopes \in ScopeListsLong
  /\ missing = NoValue
  /\ mpc = "call"
  /\ IdleUnit
  /\ IdleDiffer
  /\ IdleRunner

CallMissingScopes ==
  /\ mpc = "call"
  /\ missing' = missingScopes_(required, actualScopes)
  /\ mpc' = "done"
  /\ UNCHANGED <<required, actualScopes, unitVars, differVars, runnerVars>>

NextScopes == CallMissingScopes

SpecScopes == InitScopes /\ [][NextScopes]_vars

(***************************************************************************)
(* Claims                                                                  *)
(***************************************************************************)
\* r is an ordered, not necessarily contiguous, subsequence of a
IsSubsequence(r, a) ==
  \E f \in [1..Len(r) -> 1..Len(a)] :
     /\ \A k \in 1..Len(r) : a[f[k]] = r[k]
     /\ \A k, l \in 1..Len(r) : k < l => f[k] < f[l]

\* the longest prefix of r that is a subsequence of a
LongestEmbeddedPrefix(r, a) ==
  CHOOSE n \in 0..Len(r) :
     /\ IsSubsequence(SubSeq(r, 1, n), a)
     /\ \A m \in (n+1)..Len(r) : ~IsSubsequence(SubSeq(r, 1, m), a)

\* C1: missingScopes_(required, actual) is empty iff required is an ordered
\* subsequence of actual, and it is always the suffix of required left over
\* behind the longest prefix of required that the walk could consume.
C1_MissingIsUnmatchedSuffix ==
  mpc = "done" =>
     /\ (missing = <<>>) <=> IsSubsequence(required, actualScopes)
     /\ missing = SubSeq(required,
                         LongestEmbeddedPrefix(required, actualScopes) + 1,
                         Len(required))

\* a non-contiguous match and a proper leftover suffix have both been computed
C1_Witness ==
  /\ mpc = "done"
  /\ required = <<"a", "b", "b">>
  /\ actualScopes = <<"a", "a", "b">>
  /\ missing = <<"b">>

(***************************************************************************)
(* Claims about runGrammarTestCase (SpecUnit)                              *)
(***************************************************************************)
\* the increasing enumeration of a finite set of integers
SortedSeq(S) ==
  CHOOSE s \in [1..Cardinality(S) -> S] :
     \A i, j \in 1..Cardinality(S) : i < j => s[i] < s[j]

UnmatchedSuffix(r, a) ==
  SubSeq(r, LongestEmbeddedPrefix(r, a) + 1, Len(r))

OverlapIdx(sa, toks) ==
  {k \in 1..Len(toks) : toks[k].startIndex < sa.to /\ toks[k].endIndex > sa.from}

Violates(sa, t) ==
  \/ ~IsSubsequence(sa.scopes, t.scopes)
  \/ \E k \in 1..Len(sa.exclude) : sa.exclude[k] \in Range(t.scopes)

\* what the specification says one scope assertion contributes
ExpectedFailures(sa, toks, lineNo, n) ==
  IF OverlapIdx(sa, toks) = {} /\ sa.scopes # <<>>
    THEN <<[missing |-> sa.scopes, unexpected |-> <<>>, actual |-> <<>>,
            line |-> lineNo, srcLine |-> n, start |-> sa.from, end |-> sa.to]>>
    ELSE LET bad == {k \in OverlapIdx(sa, toks) : Violates(sa, toks[k])}
             ord == SortedSeq(bad)
         IN  [i \in 1..Cardinality(bad) |->
                LET t == toks[ord[i]]
                    Present(s) == \E k \in 1..Len(t.scopes) : t.scopes[k] = s
                IN  [missing |-> UnmatchedSuffix(sa.scopes, t.scopes),
                     unexpected |-> SelectSeq(sa.exclude, Present),
                     actual |-> t.scopes,
                     line |-> lineNo, srcLine |-> n,
                     start |-> t.startIndex, end |-> t.endIndex]]

RECURSIVE ExpectedOfGroup(_, _, _)
ExpectedOfGroup(g, k, toks) ==
  IF k > Len(g.scopeAssertions) THEN <<>>
  ELSE ExpectedFailures(g.scopeAssertions[k], toks, g.testCaseLineNumber,
                        g.sourceLineNumber)
       \o ExpectedOfGroup(g, k + 1, toks)

\* the groups of the test case are keyed by distinct source lines here, so
\* the group of line n is the one naming it
RECURSIVE ExpectedOfCase(_, _, _)
ExpectedOfCase(tc, g, i) ==
  IF i > Len(tc.source) THEN <<>>
  ELSE (IF \E k \in 1..Len(tc.assertions) : tc.assertions[k].sourceLineNumber = i - 1
          THEN ExpectedOfGroup(
                 tc.assertions[CHOOSE k \in 1..Len(tc.assertions) :
                                 tc.assertions[k].sourceLineNumber = i - 1],
                 1, g.tokens[i])
          ELSE <<>>)
       \o ExpectedOfCase(tc, g, i + 1)

\* C3: the failures of a test case are, assertion by assertion, exactly: one
\* failure (missing = required, unexpected = actual = [], the assertion's
\* offsets) when no token overlaps [from, to) and required is non-empty;
\* otherwise one failure for each overlapping token whose missing or
\* unexpected list is non-empty, in token order, with the token's offsets and
\* scopes; nothing for a token with both lists empty.
C3_FailuresPerAssertion ==
  upc = "resolved" => failures = ExpectedOfCase(testCase, grammar, 1)

\* one assertion, two overlapping tokens, both reported
C3_Witness ==
  /\ upc = "resolved"
  /\ Len(testCase.assertions) = 1
  /\ Len(testCase.assertions[1].scopeAssertions) = 1
  /\ Len(grammar.tokens[1]) = 2
  /\ Len(failures) = 2
  /\ failures[1].start # failures[2].start
  /\ failures[2].unexpected # <<>>
  /\ failures[1].missing # <<>>

\* the states of SpecUnit whose test case holds a single scope assertion
HasSingleAssertion ==
  /\ upc = "resolved"
  /\ Len(testCase.source) = 1
  /\ Len(testCase.assertions) = 1
  /\ Len(testCase.assertions[1].scopeAssertions) = 1

TheAssertion == testCase.assertions[1].scopeAssertions[1]

\* every required scope occurs in the token's scopes, but not in this order
\* (each required scope has an occurrence of its own)
OutOfOrder(sa, t) ==
  /\ \E f \in [1..Len(sa.scopes) -> 1..Len(t.scopes)] :
        /\ \A k \in 1..Len(sa.scopes) : t.scopes[f[k]] = sa.scopes[k]
        /\ \A k, l \in 1..Len(sa.scopes) : k # l => f[k] # f[l]
  /\ ~IsSubsequence(sa.scopes, t.scopes)

FailuresOfToken(t) ==
  {k \in 1..Len(failures) :
     /\ failures[k].start = t.startIndex
     /\ failures[k].end = t.endIndex
     /\ failures[k].actual = t.scopes}

\* C2 as stated: an out-of-order token is reported with every required scope
\* missing.
C2_WholeListMissing ==
  HasSingleAssertion =>
    \A i \in OverlapIdx(TheAssertion, grammar.tokens[1]) :
       LET t == grammar.tokens[1][i]
       IN  OutOfOrder(TheAssertion, t) =>
             \E k \in FailuresOfToken(t) :
                failures[k].missing = TheAssertion.scopes

\* C2 (amended): an out-of-order token is reported once, and its missing list
\* is the non-empty suffix of required that the walk did not consume, which
\* is never the whole list; required [a, b] against [b, a] gives [b].
C2_UnconsumedSuffixMissing ==
  HasSingleAssertion =>
    \A i \in OverlapIdx(TheAssertion, grammar.tokens[1]) :
       LET t == grammar.tokens[1][i]
       IN  OutOfOrder(TheAssertion, t) =>
             /\ Cardinality(FailuresOfToken(t)) = 1
             /\ \A k \in FailuresOfToken(t) :
                  /\ failures[k].missing = UnmatchedSuffix(TheAssertion.scopes, t.scopes)
                  /\ failures[k].missing # <<>>
                  /\ failures[k].missing # TheAssertion.scopes
                  /\ (TheAssertion.scopes = <<"a", "b">> /\ t.scopes = <<"b", "a">>)
                       => failures[k].missing = <<"b">>

\* required [a, b] has met a token scoped [b, a]
C2_Witness ==
  /\ HasSingleAssertion
  /\ TheAssertion.scopes = <<"a", "b">>
  /\ \E i \in OverlapIdx(TheAssertion, grammar.tokens[1]) :
        grammar.tokens[1][i].scopes = <<"b", "a">>
  /\ Len(failures) > 0

(***************************************************************************)
(* Claims about renderSnapshotTestResult (SpecDiffer)                      *)
(***************************************************************************)
IsBlankSrc(src) == \A k \in 1..Len(src) : src[k] = " "

\* the indices of the lines that are not blank, in order
NonBlankIdx(ls) == SortedSeq({k \in 1..Len(ls) : ~IsBlankSrc(ls[k].src)})

\* the token lists of a line obey the tokenizer's invariant
WellFormedTokens(toks) ==
  /\ \A k \in 1..Len(toks) : toks[k].startIndex < toks[k].endIndex
  /\ \A k \in 1..(Len(toks) - 1) : toks[k].endIndex <= toks[k + 1].startIndex

\* C4: a list of annotated lines compared with itself has no mismatched line
\* and the result is TestSuccessful.
C4_DifferIdempotent ==
  (dpc = "done" /\ expected = actual
     /\ \A k \in 1..Len(expected) : WellFormedTokens(expected[k].tokens))
  => /\ wrongLines = <<>>
     /\ result = TestSuccessful

\* a non-blank line carrying two tokens was compared with itself
C4_Witness ==
  /\ dpc = "done"
  /\ expected = actual
  /\ Len(expected) = 1
  /\ ~IsBlankSrc(expected[1].src)
  /\ Len(expected[1].tokens) = 2
  /\ result = TestSuccessful

SourcesDiffer ==
  \E i \in 1..Len(expected) : i <= Len(actual) /\ expected[i].src # actual[i].src

\* C5: with different line counts the result is TestFailed, only the line
\* count error is printed and no line was compared token by token, also when
\* some source line differs as well; with equal line counts and a source line
\* that differs the result is TestFailed, only the source error of the first
\* such line is printed and no line was compared token by token.
C5_StructuralShortCircuit ==
  /\ (dpc = "done" /\ Len(expected) # Len(actual))
       => /\ result = TestFailed
          /\ wrongLines = NoValue
          /\ console = <<[kind |-> "different number of lines"]>>
  /\ (dpc = "done" /\ Len(expected) = Len(actual) /\ SourcesDiffer)
       => /\ result = TestFailed
          /\ wrongLines = NoValue
          /\ \E i \in 1..Len(expected) :
                /\ expected[i].src # actual[i].src
                /\ \A j \in 1..(i - 1) : expected[j].src = actual[j].src
                /\ console = <<[kind |-> "source different", line |-> i]>>
  /\ wrongLines # NoValue => (Len(expected) = Len(actual) /\ ~SourcesDiffer)

\* a source mismatch on the second of two lines was reported
C5_Witness ==
  /\ dpc = "done"
  /\ Len(expected) = 2
  /\ Len(actual) = 2
  /\ expected[1].src = actual[1].src
  /\ expected[2].src # actual[2].src
  /\ expected[1].tokens # actual[1].tokens
  /\ result = TestFailed

\* the merged changes recorded for the k-th non-blank line
ChangesOfLine(k) ==
  IF \E w \in 1..Len(wrongLines) : wrongLines[w][3] = k - 1
    THEN wrongLines[CHOOSE w \in 1..Len(wrongLines) : wrongLines[w][3] = k - 1][1]
    ELSE <<>>

\* the scope names of the fragments of the kinds in `kinds`, in order
RECURSIVE FragmentScopes(_, _)
FragmentScopes(changes, kinds) ==
  IF changes = <<>> THEN <<>>
  ELSE (IF Head(changes).changeType \in kinds
          THEN [k \in 1..((Len(Head(changes).text) + 1) \div 2) |->
                  Head(changes).text[2 * k - 1]]
          ELSE <<>>)
       \o FragmentScopes(Tail(changes), kinds)

\* every neighbour of a fragment is of another kind, and no fragment is empty
IsRunList(changes) ==
  /\ \A k \in 1..Len(changes) : changes[k].text # <<>>
  /\ \A k \in 1..(Len(changes) - 1) :
        changes[k].changeType # changes[k + 1].changeType

\* C10: an actual token of a non-blank line whose start offset an expected
\* token shares contributes nothing when the two scope lists are equal, and
\* otherwise exactly one TChanges at its own (startIndex, endIndex) whose
\* fragments are runs tagged NotModified, Added or Removed: the NotModified
\* and Removed ones spell the expected scopes, the NotModified and Added ones
\* the actual scopes; the line is then mismatched and the result TestFailed.
\* Expected [a, b] against actual [a] gives [(a, NotModified), (b, Removed)].
C10_ModifiedTokens ==
  (dpc = "done" /\ wrongLines # NoValue) =>
    \A k \in 1..Len(NonBlankIdx(actual)) :
      LET act == actual[NonBlankIdx(actual)[k]]
          exp == expected[NonBlankIdx(expected)[k]]
      IN  (WellFormedTokens(act.tokens) /\ WellFormedTokens(exp.tokens)) =>
          \A i \in 1..Len(act.tokens), j \in 1..Len(exp.tokens) :
            LET a == act.tokens[i]
                e == exp.tokens[j]
                at == {x \in 1..Len(ChangesOfLine(k)) :
                         ChangesOfLine(k)[x].from = a.startIndex}
            IN  a.startIndex = e.startIndex =>
                  IF e.scopes = a.scopes THEN at = {}
                  ELSE /\ Cardinality(at) = 1
                       /\ result = TestFailed
                       /\ \A x \in at :
                            LET c == ChangesOfLine(k)[x]
                            IN  /\ c.to = a.endIndex
                                /\ IsRunList(c.changes)
                                /\ \A f \in 1..Len(c.changes) :
                                     c.changes[f].changeType \in {NotModified, Added, Removed}
                                /\ FragmentScopes(c.changes, {NotModified, Removed}) = e.scopes
                                /\ FragmentScopes(c.changes, {NotModified, Added}) = a.scopes
                                /\ (e.scopes = <<"a", "b">> /\ a.scopes = <<"a">>)
                                     => c.changes = <<[text |-> <<"a">>, changeType |-> NotModified],
                                                      [text |-> <<"b">>, changeType |-> Removed]>>

\* expected token [a, b] and actual token [a] at the same offsets: one
\* TChanges with the two fragments, the line mismatched
C10_Witness ==
  /\ dpc = "done"
  /\ Len(expected) = 1
  /\ Len(actual) = 1
  /\ expected[1].tokens = <<[startIndex |-> 0, endIndex |-> 1, scopes |-> <<"a", "b">>]>>
  /\ actual[1].tokens = <<[startIndex |-> 0, endIndex |-> 1, scopes |-> <<"a">>]>>
  /\ Len(wrongLines) = 1
  /\ wrongLines[1][1] = <<[changes |-> <<[text |-> <<"a">>, changeType |-> NotModified],
                                         [text |-> <<"b">>, changeType |-> Removed]>>,
                           from |-> 0, to |-> 1]>>
  /\ result = TestFailed

(***************************************************************************)
(* Claims about the runners                                                *)
(***************************************************************************)
CallsOf(f) == SelectSeq(rcalls, LAMBDA c : c.file = f)

\* C6: in both runners the first line of a file is tokenized with the null
\* state, line k+1 with exactly the state the tokenization of line k of the
\* same file returned, no state of a call comes from another file, and a
\* file tokenized to its end had every one of its lines tokenized, in order.
C6_StateThreaded ==
  /\ \A k \in 1..Len(rcalls) :
        LET c == rcalls[k]
        IN  /\ c.line = 1 => c.ruleStack = NullStack
            /\ c.line > 1 =>
                 /\ k > 1
                 /\ rcalls[k - 1].file = c.file
                 /\ rcalls[k - 1].line = c.line - 1
                 /\ c.ruleStack = tokenizeLine(c.file, disk[c.file].grammar, c.line - 1,
                                               rcalls[k - 1].ruleStack).ruleStack
            /\ \A e \in Range(c.ruleStack) : e[1] = c.file
  /\ \A f \in DOMAIN disk :
        chain[f] = "resolved" =>
          /\ Len(CallsOf(f)) = Len(disk[f].source)
          /\ \A k \in 1..Len(CallsOf(f)) : CallsOf(f)[k].line = k

\* two files, each tokenized beyond its first line
C6_Witness ==
  \E i, k \in 1..Len(rcalls) :
     /\ rcalls[i].file # rcalls[k].file
     /\ rcalls[i].line > 1
     /\ rcalls[k].line > 1

AllSuccessful ==
  \A f \in DOMAIN disk : chain[f] = "settled" /\ fresult[f] = TestSuccessful

\* C7 as stated: whatever the number of files, the exit code is 0 exactly
\* when every file's result is TestSuccessful.
C7_ExitZeroIffAllSuccessful ==
  phase = "exited" => (exitCode = 0 <=> AllSuccessful)

\* C7: the exit code is 0 exactly when at least one test file was found and
\* every file's result is TestSuccessful; it is non-zero when a file failed,
\* when no test file was found and when glob reported an error.
C7_ExitZeroIffSomeAndAllSuccessful ==
  phase = "exited" => (exitCode = 0 <=> (Len(files) > 0 /\ AllSuccessful))

\* a run of several files with a mix of outcomes, reduced and exited
C7_Witness ==
  /\ phase = "exited"
  /\ exitVia = "reduce"
  /\ exitCode # 0
  /\ \E f, h \in DOMAIN disk :
        /\ chain[f] = "settled"
        /\ chain[h] = "settled"
        /\ fresult[f] = TestSuccessful
        /\ fresult[h] = TestFailed

\* C8: once test files were found, an error raised for one file makes that
\* file's result TestFailed, every other file still gets its own result, and
\* the run ends through the final aggregation.
C8_ErrorsLocalToFile ==
  (phase = "exited" /\ Len(files) > 0) =>
     /\ exitVia = "reduce"
     /\ \A f \in DOMAIN disk :
           /\ chain[f] = "settled"
           /\ fresult[f] \in {TestSuccessful, TestFailed}
           /\ raised[f] => fresult[f] = TestFailed

\* C9: no line printed for one file stands between two lines printed for
\* another file.
C9_OutputInBlocks ==
  \A i, j, k \in 1..Len(stdout) :
     (i < j /\ j < k /\ stdout[i].file = stdout[k].file)
        => stdout[j].file = stdout[i].file

(***************************************************************************)
(* Claims about removed and added tokens, the order of a line's changes    *)
(* and the printed line numbers                                            *)
(***************************************************************************)
StartsOf(toks) == {toks[k].startIndex : k \in 1..Len(toks)}

\* the entries of the changes of non-blank line k that start at offset s
EntriesAt(k, s) ==
  {x \in 1..Len(ChangesOfLine(k)) : ChangesOfLine(k)[x].from = s}

\* C11: on each non-blank line an expected token is reported by one TChanges
\* holding a single Removed fragment (its space-joined scopes, its own
\* offsets) exactly when no actual token starts where it starts, and an
\* actual token by one TChanges holding a single Added fragment exactly when
\* no expected token starts where it starts.  Where an expected and an actual
\* token start at the same offset neither is reported as a whole, whatever
\* their end offsets: at that offset there is at most the one entry of the
\* scope diff, at the actual token's offsets.
C11_RemovedAddedByStartOffset ==
  (dpc = "done" /\ wrongLines # NoValue) =>
    \A k \in 1..Len(NonBlankIdx(actual)) :
      LET act == actual[NonBlankIdx(actual)[k]]
          exp == expected[NonBlankIdx(expected)[k]]
          cs == ChangesOfLine(k)
      IN  (WellFormedTokens(act.tokens) /\ WellFormedTokens(exp.tokens)) =>
            /\ \A j \in 1..Len(exp.tokens) :
                 LET e == exp.tokens[j]
                 IN  IF e.startIndex \notin StartsOf(act.tokens)
                       THEN /\ Cardinality(EntriesAt(k, e.startIndex)) = 1
                            /\ \A x \in EntriesAt(k, e.startIndex) :
                                 cs[x] = [changes |-> <<[text |-> join(e.scopes),
                                                         changeType |-> Removed]>>,
                                          from |-> e.startIndex, to |-> e.endIndex]
                       ELSE \A x \in EntriesAt(k, e.startIndex) :
                              \E i \in 1..Len(act.tokens) :
                                 /\ act.tokens[i].startIndex = e.startIndex
                                 /\ act.tokens[i].scopes # e.scopes
                                 /\ cs[x].to = act.tokens[i].endIndex
                                 /\ FragmentScopes(cs[x].changes, {NotModified, Removed}) = e.scopes
                                 /\ FragmentScopes(cs[x].changes, {NotModified, Added})
                                      = act.tokens[i].scopes
            /\ \A i \in 1..Len(act.tokens) :
                 LET a == act.tokens[i]
                 IN  IF a.startIndex \notin StartsOf(exp.tokens)
                       THEN /\ Cardinality(EntriesAt(k, a.startIndex)) = 1
                            /\ \A x \in EntriesAt(k, a.startIndex) :
                                 cs[x] = [changes |-> <<[text |-> join(a.scopes),
                                                         changeType |-> Added]>>,
                                          from |-> a.startIndex, to |-> a.endIndex]
                       ELSE Cardinality(EntriesAt(k, a.startIndex)) <= 1
            /\ \A x \in 1..Len(cs) :
                 cs[x].from \in StartsOf(exp.tokens) \cup StartsOf(act.tokens)

\* one line: the expected token at 0 has an actual counterpart with another
\* end offset and the same scopes, the expected token at 1 has none; only
\* the second is reported, as removed
C11_Witness ==
  /\ dpc = "done"
  /\ Len(expected) = 1
  /\ Len(actual) = 1
  /\ expected[1].tokens = <<[startIndex |-> 0, endIndex |-> 1, scopes |-> <<"a">>],
                            [startIndex |-> 1, endIndex |-> 2, scopes |-> <<"a", "b">>]>>
  /\ actual[1].tokens = <<[startIndex |-> 0, endIndex |-> 2, scopes |-> <<"a">>]>>
  /\ Len(wrongLines) = 1
  /\ wrongLines[1][1] = <<[changes |-> <<[text |-> <<"a", " ", "b">>, changeType |-> Removed]>>,
                           from |-> 1, to |-> 2]>>

\* a token difference on non-blank line k
TokensDifferOn(k) ==
  LET act == actual[NonBlankIdx(actual)[k]]
      exp == expected[NonBlankIdx(expected)[k]]
  IN  \/ \E j \in 1..Len(exp.tokens) : exp.tokens[j].startIndex \notin StartsOf(act.tokens)
      \/ \E i \in 1..Len(act.tokens) : act.tokens[i].startIndex \notin StartsOf(exp.tokens)
      \/ \E i \in 1..Len(act.tokens), j \in 1..Len(exp.tokens) :
            /\ act.tokens[i].startIndex = exp.tokens[j].startIndex
            /\ act.tokens[i].scopes # exp.tokens[j].scopes

InFromToOrder(cs) ==
  \A i, j \in 1..Len(cs) :
     i < j => \/ cs[i].from < cs[j].from
              \/ (cs[i].from = cs[j].from /\ cs[i].to <= cs[j].to)

\* C12: the changes of every mismatched line are in ascending (from, to)
\* order, from dominating, whatever the offsets; and a non-blank line is
\* among the mismatched lines exactly when its list of changes is not
\* empty, that is when its tokens differ.
C12_ChangesInFromToOrder ==
  (dpc = "done" /\ wrongLines # NoValue) =>
     /\ \A w \in 1..Len(wrongLines) :
           /\ Len(wrongLines[w][1]) > 0
           /\ InFromToOrder(wrongLines[w][1])
     /\ \A k \in 1..Len(NonBlankIdx(actual)) :
           (WellFormedTokens(actual[NonBlankIdx(actual)[k]].tokens)
              /\ WellFormedTokens(expected[NonBlankIdx(expected)[k]].tokens))
           => ((\E w \in 1..Len(wrongLines) : wrongLines[w][3] = k - 1) <=> TokensDifferOn(k))

\* the tokens of the line at file position p differ between the two sides
TokensDifferAt(p) ==
  LET act == actual[p]
      exp == expected[p]
  IN  \/ \E j \in 1..Len(exp.tokens) : exp.tokens[j].startIndex \notin StartsOf(act.tokens)
      \/ \E i \in 1..Len(act.tokens) : act.tokens[i].startIndex \notin StartsOf(exp.tokens)
      \/ \E i \in 1..Len(act.tokens), j \in 1..Len(exp.tokens) :
            /\ act.tokens[i].startIndex = exp.tokens[j].startIndex
            /\ act.tokens[i].scopes # exp.tokens[j].scopes

\* the file positions (from 1) of the non-blank lines whose tokens differ
MismatchedPositions ==
  SortedSeq({p \in 1..Len(expected) : ~IsBlankSrc(expected[p].src) /\ TokensDifferAt(p)})

PrintedSourceLines == SelectSeq(console, LAMBDA c : c.kind = "sourceLine")

\* C13: the source lines printed in the diff are the non-blank lines whose
\* tokens differ, in file order, each with its 1-based position in the file
\* as line number, however many blank lines precede it; a blank line is
\* never printed.
C13_PrintedLineNumberIsFilePosition ==
  (dpc = "done" /\ wrongLines # NoValue
     /\ \A p \in 1..Len(expected) :
           WellFormedTokens(expected[p].tokens) /\ WellFormedTokens(actual[p].tokens))
  => /\ Len(PrintedSourceLines) = Len(MismatchedPositions)
     /\ \A x \in 1..Len(PrintedSourceLines) :
           /\ ~IsBlankSrc(PrintedSourceLines[x].line)
           /\ x <= Len(MismatchedPositions) =>
                /\ PrintedSourceLines[x].line = expected[MismatchedPositions[x]].src
                /\ PrintedSourceLines[x].pos = MismatchedPositions[x]

(***************************************************************************)
(* Claims about the snapshot files                                         *)
(***************************************************************************)
\* what one step does to the snapshot of file f
SnapshotStep(f) ==
  /\ snapFile'[f] # snapFile[f] =>
       /\ ~snapFile[f].exists \/ program.updateSnapshot
       /\ chain'[f] = "settled"
       /\ fresult'[f] = TestSuccessful
  /\ (snapFile[f].exists /\ ~program.updateSnapshot) => snapFile'[f] = snapFile[f]
  /\ (chain[f] = "resolved" /\ chain'[f] # "resolved"
        /\ (~snapFile[f].exists \/ program.updateSnapshot)) =>
       /\ Len(stdout') = Len(stdout) + 1
       /\ stdout'[Len(stdout')].line.kind \in {"Generating snapshot", "Updating snapshot"}
       /\ \/ chain'[f] = "rejected" /\ snapFile'[f] = snapFile[f]
          \/ /\ chain'[f] = "settled"
             /\ fresult'[f] = TestSuccessful
             /\ snapFile'[f].exists

=============================================================================
